---- MODULE Spec2Model ----
(***************************************************************************)
(* Model of WeaR-Synaptic's ReplayEngine (src/services/ReplayEngine.ts)    *)
(* and of the part of the log store (services/db) it reads.                *)
(*                                                                         *)
(* The engine runs on one JavaScript event loop.  Every action below is    *)
(* one macrotask: a call made by the owner of the engine, one animation    *)
(* frame, or the completion of one store read together with the promise    *)
(* continuations that completion releases.  A method that awaits a store   *)
(* read is split at the await: the part before it belongs to the action    *)
(* that called the method, the part after it to the action that completes  *)
(* the read.  When fetchNextBatch returns at once because a read is        *)
(* already in flight, the caller's continuation is a microtask of the      *)
(* same macrotask and stays in the calling action.                         *)
(*                                                                         *)
(* Wall-clock values (now, startTime, pausedAt) are integers counting      *)
(* 1/Unit milliseconds, timestamps are integer milliseconds.  Speeds are   *)
(* powers of two and Unit is large enough for every division of setSpeed   *)
(* to be exact: the model computes in exact arithmetic, the rounding of    *)
(* IEEE doubles is not modelled.                                           *)
(***************************************************************************)
EXTENDS Integers, Sequences, FiniteSets, TLC

\* ---- bounds of the model ------------------------------------------------
MaxCalls == 3
MaxSetSpeed == 1
MaxTime == 2
MaxFailures == 1
MaxStored == 4
MaxRows == 3
MaxOps == 1
MaxLines == 2
MaxListens == 2
MaxAdds == 3

Unit == 2 ^ MaxSetSpeed

\* timestamps of the stored sessions the engine is constructed on
Sessions == { <<>>, <<2>>, <<0, 1, 2>>, <<1, 1, 2>> }
BatchSizes == {1, 2, 3}
RefetchThresholds == {0, 1, 2, 3}
\* <<stored, batchSize, refetchThreshold>> of the engines driven by arbitrary calls
Configs == { << <<0, 1, 2>>, 1, 1 >>, << <<0, 1, 2>>, 2, 2 >>,
             << <<0, 1, 2>>, 2, 0 >>, << <<>>, 1, 1 >> }
Speeds == {1, 2}
\* multipliers setSpeed rejects
BadSpeeds == {0, -1}
\* seek positions as fractions <<numerator, denominator>>
Positions == { <<0, 1>>, <<1, 2>>, <<1, 1>> }
\* positions seek rejects
BadPositions == { <<-1, 2>>, <<3, 2>> }

VARIABLES
    status, speed, queue, offset, totalLogs, emittedCount,
    startTime, simulationTimeStart, pausedAt, rafHandle, isFetching,
    batchSize, refetchThreshold,
    stored,        \* rows of system_logs of the replayed session (timestamps)
    now,           \* performance.now()
    frames,        \* scheduled animation frames rafHandle no longer names
    pending,       \* store reads in flight, with the continuation awaiting each
    callbacks,     \* callbacks invoked by the last action, in order
    emitted,       \* ids passed to onLog so far
    lastProgress,  \* last value passed to onProgress
    calls, setSpeeds, failures,
    lastOp,        \* the operation the last action performed
    prevStatus,    \* status before the last action
    halted,        \* stop()/pause() returned and no start()/seek() was called since
    pauseClock,    \* simulated clock recorded when pause() took effect
    probe,         \* what an observer comparing two uses of the engine noted
    system_logs,   \* rows of table system_logs, in insertion order
    sessions,      \* rows of table sessions, by id
    dbOps,         \* store operations between two of their statements
    dateNow,       \* Date.now()
    reader,        \* a client reading a session page by page
    running,       \* list_running: the targets with a live subordinate
    sessionOf,     \* the session of each target that was spawned
    notified,      \* process-stopped notifications, in order
    lines,         \* every line written to each stdio stream so far
    pipes,         \* the lines of each stream not yet read by its relay path
    relayed,       \* the lines passed on to the subordinate and to the caller
    captured,      \* the capture events, in capture order
    selectedServer,    \* useAppStore: the server the inspector shows
    inspectorActive,   \* useAppStore
    inspectorMessages, \* useAppStore: the store's message buffer
    isProcessRunning,  \* InspectorPanel state
    messages,          \* InspectorPanel state: the displayed message list
    listeners,         \* the registered mcp-traffic listeners
    registering,       \* listen() calls whose promise has not resolved yet
    arrivals           \* additions to each message buffer since it was cleared

engineVars == <<status, speed, queue, offset, totalLogs, emittedCount,
                startTime, simulationTimeStart, pausedAt, rafHandle,
                isFetching, frames, pending, callbacks, emitted, lastProgress>>
optionVars == <<batchSize, refetchThreshold, stored>>
historyVars == <<lastOp, prevStatus, halted, pauseClock, probe>>
dbVars == <<system_logs, sessions, dbOps, dateNow, reader>>
proxyVars == <<running, sessionOf, notified, lines, pipes, relayed, captured>>
panelVars == <<selectedServer, inspectorActive, inspectorMessages,
               isProcessRunning, messages, listeners, registering, arrivals>>
vars == <<engineVars, optionVars, now, calls, setSpeeds, failures, historyVars,
          dbVars, proxyVars, panelVars>>

\* ---- callbacks ----------------------------------------------------------
LogCall(id)        == [cb |-> "onLog", id |-> id, st |-> "-", num |-> 0, den |-> 1]
StatusCall(s)      == [cb |-> "onStatusChange", id |-> 0, st |-> s, num |-> 0, den |-> 1]
ProgressCall(n, d) == [cb |-> "onProgress", id |-> 0, st |-> "-", num |-> n, den |-> d]

\* ---- the engine as a value ----------------------------------------------
Engine ==
    [status |-> status, speed |-> speed, queue |-> queue, offset |-> offset,
     totalLogs |-> totalLogs, emittedCount |-> emittedCount,
     startTime |-> startTime, simulationTimeStart |-> simulationTimeStart,
     pausedAt |-> pausedAt, rafHandle |-> rafHandle, isFetching |-> isFetching,
     frames |-> frames, pending |-> pending, callbacks |-> <<>>,
     emitted |-> emitted, lastProgress |-> lastProgress]

Becomes(S) ==
    /\ status' = S.status
    /\ speed' = S.speed
    /\ queue' = S.queue
    /\ offset' = S.offset
    /\ totalLogs' = S.totalLogs
    /\ emittedCount' = S.emittedCount
    /\ startTime' = S.startTime
    /\ simulationTimeStart' = S.simulationTimeStart
    /\ pausedAt' = S.pausedAt
    /\ rafHandle' = S.rafHandle
    /\ isFetching' = S.isFetching
    /\ frames' = S.frames
    /\ pending' = S.pending
    /\ callbacks' = S.callbacks
    /\ emitted' = S.emitted
    /\ lastProgress' = S.lastProgress

\* ---- the store ----------------------------------------------------------
Min(a, b) == IF a < b THEN a ELSE b

\* SELECT COUNT(*) FROM system_logs WHERE session_id = $1
getLogCount == Len(stored)

\* SELECT * ... ORDER BY timestamp ASC LIMIT $2 OFFSET $3
getLogsBySession(limit, off) ==
    [i \in 1..(Min(off + limit, Len(stored)) - Min(off, Len(stored))) |->
        [id |-> Min(off, Len(stored)) + i,
         timestamp |-> stored[Min(off, Len(stored)) + i]]]

\* ---- the tables ---------------------------------------------------------
\* the session the engine replays, and the sessions written by capture
Replayed == "replayed"
SessionIds == {"s1", "s2"}
Stamps == {1, 2}

Null == -1

LogRow(id, s, ts) == [id |-> id, session_id |-> s, timestamp |-> ts]

\* the rows of the replayed session as `stored` lists them
RowsOf(ts) == [i \in 1..Len(ts) |-> LogRow(i, Replayed, ts[i])]

\* tables of at most MaxRows rows written for the capture sessions
Tables ==
    UNION { { [i \in 1..n |-> LogRow(i, f[i][1], f[i][2])] :
                f \in [1..n -> SessionIds \X Stamps] } : n \in 0..MaxRows }

\* WHERE session_id = $1
SessionRows(s) == SelectSeq(system_logs, LAMBDA r : r.session_id = s)

\* ORDER BY timestamp ASC: every order of the session's rows with
\* non-decreasing timestamps is a result the query may produce (the order
\* of rows with equal timestamps is left to the database)
ResultOrders(s) ==
    LET rows == SessionRows(s)
        n == Len(rows)
    IN { [i \in 1..n |-> rows[q[i]]] :
            q \in { f \in [1..n -> 1..n] :
                        /\ \A i, j \in 1..n : i # j => f[i] # f[j]
                        /\ \A i, j \in 1..n :
                              i < j => rows[f[i]].timestamp <= rows[f[j]].timestamp } }

\* LIMIT $2 OFFSET $3
selectLogs(order, limit, off) ==
    SubSeq(order, Min(off, Len(order)) + 1, Min(off + limit, Len(order)))

NoReader == [session |-> Replayed, limit |-> 1, offset |-> 0, rows |-> <<>>,
             done |-> TRUE]

\* ---- engine methods -----------------------------------------------------
setStatus(S, s) ==
    [S EXCEPT !.status = s, !.callbacks = Append(@, StatusCall(s))]

onProgress(S, n, d) ==
    [S EXCEPT !.callbacks = Append(@, ProgressCall(n, d)),
              !.lastProgress = <<n, d>>]

\* the store read a continuation is waiting for
Read(op, by, off, pos, wasPlaying) ==
    [op |-> op, by |-> by, off |-> off, pos |-> pos,
     wasPlaying |-> wasPlaying, stale |-> FALSE]

\* fetchNextBatch up to its await: the read is issued with the current offset
issueBatch(S, by, pos, wasPlaying) ==
    [S EXCEPT !.isFetching = TRUE,
              !.pending = Append(@, Read("batch", by, S.offset, pos, wasPlaying))]

\* the simulated clock of tick(), in 1/Unit ms
SimClock(S) == S.simulationTimeStart * Unit + (now - S.startTime) * S.speed

\* the emission test of tick(): timestamp <= targetTime
isDue(log, target) == log.timestamp * Unit <= target

RECURSIVE emitLoop(_, _)
emitLoop(S, target) ==
    IF Len(S.queue) > 0 /\ isDue(S.queue[1], target)
        THEN LET log == Head(S.queue)
                 S1 == [S EXCEPT !.queue = Tail(@),
                                 !.callbacks = Append(@, LogCall(log.id)),
                                 !.emitted = Append(@, log.id),
                                 !.emittedCount = @ + 1]
             IN emitLoop(onProgress(S1, S1.emittedCount, S1.totalLogs), target)
        ELSE S

requestAnimationFrame(S) ==
    [S EXCEPT !.rafHandle = "live",
              !.frames = IF S.rafHandle = "live" THEN @ + 1 ELSE @]

cancelAnimationFrame(S) ==
    IF S.rafHandle # "null" THEN [S EXCEPT !.rafHandle = "null"] ELSE S

needsBatch_ignoreFlag(S) == Len(S.queue) < refetchThreshold

\* the read-ahead condition of tick()
needsBatch(S) == Len(S.queue) < refetchThreshold /\ ~S.isFetching

tick(S) ==
    IF S.status # "playing" THEN S
    ELSE LET S1 == emitLoop(S, SimClock(S))
             S2 == IF needsBatch(S1)
                       THEN issueBatch(S1, "tick", <<0, 1>>, FALSE)
                       ELSE S1
         IN IF Len(S2.queue) = 0 /\ S2.offset >= S2.totalLogs
                THEN setStatus(S2, "ended")
                ELSE requestAnimationFrame(S2)

resumedStartTime_noShift(S) == S.startTime

\* startTime after `this.startTime += pauseDuration`
resumedStartTime(S) == S.startTime + (now - S.pausedAt)

\* start() from "Resume from pause" on
startResume(S) ==
    LET S1 == IF S.status = "paused"
                  THEN [S EXCEPT !.startTime = resumedStartTime(S)]
                  ELSE S
    IN tick(setStatus(S1, "playing"))

\* start() after `await this.fetchNextBatch()`
startAfterFetch(S) ==
    IF Len(S.queue) = 0 THEN setStatus(S, "ended")
    ELSE startResume([S EXCEPT !.simulationTimeStart = S.queue[1].timestamp,
                               !.startTime = now])

startAfterCount_fetchAnyway(S, count) ==
    LET S1 == [S EXCEPT !.totalLogs = count]
    IN IF S1.isFetching THEN startAfterFetch(S1)
       ELSE issueBatch(S1, "start", <<0, 1>>, FALSE)

\* start() after `await getLogCount(...)`
startAfterCount(S, count) ==
    LET S1 == [S EXCEPT !.totalLogs = count]
    IN IF count = 0 THEN setStatus(S1, "ended")
       ELSE IF S1.isFetching THEN startAfterFetch(S1)
       ELSE issueBatch(S1, "start", <<0, 1>>, FALSE)

start(S) ==
    IF S.status = "playing" THEN S
    ELSE IF S.status = "idle"
        THEN [S EXCEPT !.offset = 0, !.queue = <<>>, !.emittedCount = 0,
                       !.pending = Append(@, Read("count", "start", 0, <<0, 1>>, FALSE))]
        ELSE startResume(S)

pause_dropQueue(S) ==
    IF S.status # "playing" THEN S
    ELSE cancelAnimationFrame(setStatus([S EXCEPT !.pausedAt = now,
                                                  !.queue = <<>>], "paused"))

pause(S) ==
    IF S.status # "playing" THEN S
    ELSE cancelAnimationFrame(setStatus([S EXCEPT !.pausedAt = now], "paused"))

\* reads in flight when the cursor is reset no longer belong to it
MarkStale(S) ==
    [S EXCEPT !.pending = [i \in DOMAIN @ |->
        IF @[i].op = "batch" THEN [@[i] EXCEPT !.stale = TRUE] ELSE @[i]]]

stop(S) ==
    setStatus([cancelAnimationFrame(MarkStale(S)) EXCEPT
                   !.queue = <<>>, !.offset = 0, !.emittedCount = 0], "idle")

rescaledStartTime_keep(S, multiplier) == S.startTime

\* startTime after `this.startTime = now - (simElapsed / multiplier)`
rescaledStartTime(S, multiplier) ==
    LET realElapsed == now - S.startTime
        simElapsed == realElapsed * S.speed
    IN now - (simElapsed \div multiplier)

setSpeed(S, multiplier) ==
    IF multiplier <= 0 THEN S
    ELSE LET S1 == IF S.status = "playing"
                       THEN [S EXCEPT !.startTime = rescaledStartTime(S, multiplier)]
                       ELSE S
         IN [S1 EXCEPT !.speed = multiplier]

\* seek() after `await this.fetchNextBatch()`
seekAfterFetch(S, pos, wasPlaying) ==
    LET S1 == IF Len(S.queue) > 0
                  THEN [S EXCEPT !.simulationTimeStart = S.queue[1].timestamp,
                                 !.startTime = now]
                  ELSE S
        S2 == onProgress(S1, pos[1], pos[2])
    IN IF wasPlaying THEN start(S2) ELSE S2

targetOffset_start(S, pos) == 0

targetOffset_relative(S, pos) ==
    Min(S.totalLogs, S.emittedCount + (S.totalLogs * pos[1]) \div pos[2])

\* Math.floor(this.totalLogs * position)
targetOffset(S, pos) == (S.totalLogs * pos[1]) \div pos[2]

outOfRange_belowOnly(pos) == pos[1] < 0

\* position < 0 || position > 1
outOfRange(pos) == pos[1] < 0 \/ pos[1] > pos[2]

seek_keepQueue(S, pos) ==
    IF outOfRange(pos) THEN S
    ELSE LET wasPlaying == S.status = "playing"
             S1 == [pause(MarkStale(S)) EXCEPT !.offset = targetOffset(S, pos),
                                               !.emittedCount = targetOffset(S, pos)]
         IN IF S1.isFetching THEN seekAfterFetch(S1, pos, wasPlaying)
            ELSE issueBatch(S1, "seek", pos, wasPlaying)

seek(S, pos) ==
    IF outOfRange(pos) THEN S
    ELSE LET wasPlaying == S.status = "playing"
             S1 == [pause(MarkStale(S)) EXCEPT !.offset = targetOffset(S, pos),
                                               !.emittedCount = targetOffset(S, pos),
                                               !.queue = <<>>]
         IN IF S1.isFetching THEN seekAfterFetch(S1, pos, wasPlaying)
            ELSE issueBatch(S1, "seek", pos, wasPlaying)

\* fetchNextBatch after its await, and the continuation awaiting it
RemoveAt(s, i) == [j \in 1..(Len(s) - 1) |-> IF j < i THEN s[j] ELSE s[j + 1]]

batchLoaded_noAdvance(S, r) ==
    [S EXCEPT !.queue = @ \o getLogsBySession(batchSize, r.off),
              !.isFetching = FALSE]

batchLoaded(S, r) ==
    LET logs == getLogsBySession(batchSize, r.off)
    IN [S EXCEPT !.queue = @ \o logs,
                 !.offset = @ + Len(logs),
                 !.isFetching = FALSE]

batchFailed_keepFlag(S, r) == S

batchFailed(S, r) == [S EXCEPT !.isFetching = FALSE]

resume(S, r) ==
    IF r.by = "start" THEN startAfterFetch(S)
    ELSE IF r.by = "seek" THEN seekAfterFetch(S, r.pos, r.wasPlaying)
    ELSE S

\* ---- initial state ------------------------------------------------------
NoClock == [state |-> "none", clock |-> 0]

\* no comparison under way; cursor is <<offset, emittedCount, queue>>
NoProbe == [phase |-> "off", from |-> "idle", at |-> 0, pos |-> <<0, 1>>,
            cursor |-> <<0, 0, <<>>>>]

\* the engine after construction
Constructed ==
    /\ status = "idle" /\ speed = 1 /\ queue = <<>> /\ offset = 0
    /\ totalLogs = 0 /\ emittedCount = 0
    /\ startTime = 0 /\ simulationTimeStart = 0 /\ pausedAt = 0
    /\ rafHandle = "null" /\ isFetching = FALSE
    /\ now = 0 /\ frames = 0 /\ pending = <<>>
    /\ callbacks = <<>> /\ emitted = <<>> /\ lastProgress = <<0, 1>>
    /\ calls = 0 /\ setSpeeds = 0 /\ failures = 0
    /\ lastOp = "new" /\ prevStatus = "idle" /\ halted = FALSE
    /\ pauseClock = NoClock /\ probe = NoProbe

\* ---- the capture proxy ---------------------------------------------------
Targets == {"t1", "t2"}
Streams == {"stdin", "stdout", "stderr"}

\* the n-th line written to a stream
Line(st, n) == [stream |-> st, n |-> n]

direction(st) ==
    CASE st = "stdin" -> "OUTGOING"
      [] st = "stdout" -> "INCOMING"
      [] st = "stderr" -> "STDERR"

McpTrafficEvent(t, st, line) ==
    [serverId |-> t, direction |-> direction(st), content |-> line]

\* which relay paths pass their lines on, and where
forwards_all(st) ==
    IF st = "stdin" THEN "toChild" ELSE "toCaller"

forwards(st) ==
    CASE st = "stdin" -> "toChild"
      [] st = "stdout" -> "toCaller"
      [] st = "stderr" -> "nowhere"

\* no target was spawned
Unwrapped ==
    /\ running = {} /\ sessionOf = [t \in {} |-> Null] /\ notified = <<>>
    /\ lines = [st \in Streams |-> <<>>] /\ pipes = [st \in Streams |-> <<>>]
    /\ relayed = [toChild |-> <<>>, toCaller |-> <<>>]
    /\ captured = <<>>

\* ---- the inspector panel and the application store -----------------------
NoServer == "null"

PanelKeep == 499
StoreKeep == 500

\* the n-th message added to a buffer, of server t
Message(t, n) == [server |-> t, n |-> n]

\* s.slice(-n)
slice(s, n) == SubSeq(s, Len(s) - Min(n, Len(s)) + 1, Len(s))

keepLast_all(prev, msg) == Append(prev, msg)

\* setMessages((prev) => [...prev.slice(-499), msg])
keepLast(prev, msg) == Append(slice(prev, PanelKeep), msg)

\* the mcp-traffic event handled by k listeners, one after the other
RECURSIVE handled(_, _, _, _)
handled(prev, t, n, k) ==
    IF k = 0 THEN prev
    ELSE handled(keepLast(prev, Message(t, n + 1)), t, n + 1, k - 1)


\* the application store as created, and no inspector panel mounted
PanelClosed ==
    /\ selectedServer = NoServer /\ inspectorActive = FALSE
    /\ inspectorMessages = <<>>
    /\ isProcessRunning = FALSE /\ messages = <<>>
    /\ listeners = <<>> /\ registering = <<>> /\ arrivals = [panel |-> 0, store |-> 0, adds |-> 0]

\* nothing but the engine uses the store
Installed ==
    /\ sessions = [s \in {} |-> Null] /\ dbOps = <<>> /\ dateNow = 0
    /\ reader = NoReader
    /\ Unwrapped /\ PanelClosed

Init ==
    /\ Constructed /\ Installed
    /\ \E c \in Configs :
        stored = c[1] /\ batchSize = c[2] /\ refetchThreshold = c[3]
    /\ system_logs = RowsOf(stored)

InitPlay ==
    /\ Constructed /\ Installed
    /\ stored \in Sessions
    /\ batchSize \in BatchSizes
    /\ refetchThreshold \in RefetchThresholds
    /\ system_logs = RowsOf(stored)

\* ---- what an observer of the engine records about an action --------------
Observe(op) ==
    /\ lastOp' = op
    /\ prevStatus' = status
    /\ halted' = IF op \in {"pause", "stop"} THEN TRUE
                 ELSE IF op \in {"start", "seek"} THEN FALSE
                 ELSE halted
    /\ pauseClock' =
        IF op = "pause" /\ status = "playing"
            THEN [state |-> "paused", clock |-> SimClock(Engine)]
        ELSE IF op = "start" /\ pauseClock.state = "paused"
            THEN [pauseClock EXCEPT !.state = "resumed"]
        ELSE IF \/ op \in {"stop", "seek", "setSpeed"}
                \/ pauseClock.state # "paused"
                \/ status' # "paused"
                \/ startTime' # startTime
                \/ simulationTimeStart' # simulationTimeStart
                \/ speed' # speed
            THEN NoClock
        ELSE pauseClock

\* ---- actions ------------------------------------------------------------
Call ==
    /\ calls < MaxCalls
    /\ calls' = calls + 1
    /\ UNCHANGED <<dbVars, proxyVars, panelVars, optionVars, now, failures, probe>>

Start ==
    /\ Call /\ UNCHANGED setSpeeds
    /\ Becomes(start(Engine))
    /\ Observe("start")

Pause ==
    /\ Call /\ UNCHANGED setSpeeds
    /\ Becomes(pause(Engine))
    /\ Observe("pause")

Stop ==
    /\ Call /\ UNCHANGED setSpeeds
    /\ Becomes(stop(Engine))
    /\ Observe("stop")

SetSpeed ==
    /\ Call
    /\ setSpeeds < MaxSetSpeed
    /\ setSpeeds' = setSpeeds + 1
    /\ \E m \in Speeds : Becomes(setSpeed(Engine, m))
    /\ Observe("setSpeed")

Seek ==
    /\ Call /\ UNCHANGED setSpeeds
    /\ \E p \in Positions : Becomes(seek(Engine, p))
    /\ Observe("seek")

\* an animation frame runs one scheduled tick callback
Frame ==
    /\ \/ /\ rafHandle = "live"
          /\ Becomes(tick([Engine EXCEPT !.rafHandle = "stale"]))
       \/ /\ frames > 0
          /\ Becomes(tick([Engine EXCEPT !.frames = @ - 1]))
    /\ Observe("frame")
    /\ UNCHANGED <<dbVars, proxyVars, panelVars, optionVars, now, calls, setSpeeds, failures, probe>>

CountDone ==
    /\ \E i \in DOMAIN pending :
        /\ pending[i].op = "count"
        /\ Becomes(startAfterCount([Engine EXCEPT !.pending = RemoveAt(@, i)],
                                   getLogCount))
    /\ Observe("countDone")
    /\ UNCHANGED <<dbVars, proxyVars, panelVars, optionVars, now, calls, setSpeeds, failures, probe>>

BatchDone ==
    /\ \E i \in DOMAIN pending :
        /\ pending[i].op = "batch"
        /\ Becomes(resume(batchLoaded([Engine EXCEPT !.pending = RemoveAt(@, i)],
                                      pending[i]),
                          pending[i]))
    /\ Observe("batchDone")
    /\ UNCHANGED <<dbVars, proxyVars, panelVars, optionVars, now, calls, setSpeeds, failures, probe>>

\* the store read rejects: the awaiting method rejects with it
ReadFail ==
    /\ failures < MaxFailures
    /\ failures' = failures + 1
    /\ \E i \in DOMAIN pending :
        Becomes(IF pending[i].op = "batch"
                    THEN batchFailed([Engine EXCEPT !.pending = RemoveAt(@, i)],
                                     pending[i])
                    ELSE [Engine EXCEPT !.pending = RemoveAt(@, i)])
    /\ Observe("readFail")
    /\ UNCHANGED <<dbVars, proxyVars, panelVars, optionVars, now, calls, setSpeeds, probe>>

AdvanceTime ==
    /\ now < MaxTime * Unit
    /\ now' = now + Unit
    /\ Becomes(Engine)
    /\ Observe("time")
    /\ UNCHANGED <<dbVars, proxyVars, panelVars, optionVars, calls, setSpeeds, failures, probe>>

Next ==
    \/ Start \/ Pause \/ Stop \/ SetSpeed \/ Seek
    \/ Frame \/ CountDone \/ BatchDone \/ ReadFail \/ AdvanceTime

Spec == Init /\ [][Next]_vars

\* ---- uninterrupted playback: one start(), frames, successful reads -------
StartOnce == calls = 0 /\ Start

PlayTime == status = "playing" /\ AdvanceTime

NextPlay == StartOnce \/ Frame \/ CountDone \/ BatchDone \/ PlayTime

SpecPlay == InitPlay /\ [][NextPlay]_vars

FairSpecPlay ==
    SpecPlay /\ WF_vars(Frame) /\ WF_vars(CountDone) /\ WF_vars(BatchDone)
             /\ WF_vars(PlayTime)

\* ---- awaited use: the owner calls only when no store read is in flight ---
Quiet == pending = <<>>

AwaitedStart == Quiet /\ Start
AwaitedPause == Quiet /\ Pause
AwaitedStop == Quiet /\ Stop
AwaitedSetSpeed == Quiet /\ SetSpeed
AwaitedSeek == Quiet /\ Seek

NextAwaited ==
    \/ AwaitedStart \/ AwaitedPause \/ AwaitedStop \/ AwaitedSetSpeed
    \/ AwaitedSeek \/ Frame \/ CountDone \/ BatchDone \/ AdvanceTime

SpecAwaited == InitPlay /\ [][NextAwaited]_vars

\* ---- awaited use, then seek(0.0) followed by start() ----------------------
Unprobed == probe.phase = "off"

ProbeCall == UNCHANGED <<dbVars, proxyVars, panelVars, optionVars, now, calls, setSpeeds, failures>>

EarlierStart == Unprobed /\ AwaitedStart
EarlierPause == Unprobed /\ AwaitedPause
EarlierStop == Unprobed /\ AwaitedStop
EarlierSeek == Unprobed /\ AwaitedSeek

SeekToStart ==
    /\ Quiet /\ Unprobed /\ ProbeCall
    /\ Becomes(seek(Engine, <<0, 1>>))
    /\ Observe("seek")
    /\ probe' = [NoProbe EXCEPT !.phase = "sought", !.from = status,
                                !.at = Len(emitted)]

StartAfterSeek ==
    /\ Quiet /\ probe.phase = "sought" /\ ProbeCall
    /\ Becomes(start(Engine))
    /\ Observe("start")
    /\ probe' = [probe EXCEPT !.phase = "restarted"]

NextRestart ==
    \/ EarlierStart \/ EarlierPause \/ EarlierStop \/ EarlierSeek
    \/ SeekToStart \/ StartAfterSeek
    \/ Frame \/ CountDone \/ BatchDone \/ AdvanceTime

SpecRestart == InitPlay /\ [][NextRestart]_vars

\* ---- awaited use, then seek(p) twice in succession ------------------------
SeekOnce ==
    /\ Quiet /\ Unprobed /\ ProbeCall
    /\ \E p \in Positions :
        /\ Becomes(seek(Engine, p))
        /\ probe' = [NoProbe EXCEPT !.phase = "once", !.from = status,
                                    !.at = Len(emitted), !.pos = p]
    /\ Observe("seek")

\* the first seek has just completed
SeekCompleted ==
    /\ Quiet /\ lastOp = "batchDone"
    /\ Len(callbacks) > 0 /\ callbacks[1].cb = "onProgress"

SeekAgain ==
    /\ probe.phase = "once" /\ SeekCompleted /\ ProbeCall
    /\ Becomes(seek(Engine, probe.pos))
    /\ Observe("seek")
    /\ probe' = [probe EXCEPT !.phase = "twice",
                              !.cursor = <<offset, emittedCount, queue>>]

\* the engine had the first seek's read completed at this instant
seekAlone ==
    resume(batchLoaded([Engine EXCEPT !.pending = <<>>], pending[1]), pending[1])

SeekAgainAtOnce ==
    /\ probe.phase = "once" /\ lastOp = "seek" /\ Len(pending) = 1 /\ ProbeCall
    /\ Becomes(seek(Engine, probe.pos))
    /\ Observe("seek")
    /\ probe' = [probe EXCEPT !.phase = "overlapped",
                              !.cursor = <<seekAlone.offset, seekAlone.emittedCount,
                                           seekAlone.queue>>]

NextSeekTwice ==
    \/ EarlierStart \/ EarlierPause \/ EarlierStop \/ EarlierSeek
    \/ SeekOnce \/ SeekAgain \/ SeekAgainAtOnce
    \/ Frame \/ CountDone \/ BatchDone \/ AdvanceTime

SpecSeekTwice == InitPlay /\ [][NextSeekTwice]_vars

\* ---- awaited use, and calls with invalid arguments at any moment ----------
SetSpeedInvalid ==
    /\ Call /\ UNCHANGED setSpeeds
    /\ \E m \in BadSpeeds : Becomes(setSpeed(Engine, m))
    /\ Observe("badSetSpeed")

SeekInvalid ==
    /\ Call /\ UNCHANGED setSpeeds
    /\ \E p \in BadPositions : Becomes(seek(Engine, p))
    /\ Observe("badSeek")

NextInvalid == NextAwaited \/ SetSpeedInvalid \/ SeekInvalid

SpecInvalid == InitPlay /\ [][NextInvalid]_vars

\* ---- uninterrupted playback while capture writes to the session ----------
\* timestamp of the last stored row
lastTimestamp == IF stored = <<>> THEN 0 ELSE stored[Len(stored)]

\* INSERT INTO system_logs: capture stamps rows with the current time
insertLog ==
    /\ Len(stored) < MaxStored
    /\ \E later \in {0, 1} :
        /\ stored' = Append(stored, lastTimestamp + later)
        /\ system_logs' = Append(system_logs,
                LogRow(Len(system_logs) + 1, Replayed, lastTimestamp + later))
    /\ UNCHANGED <<engineVars, batchSize, refetchThreshold, now, calls,
                   setSpeeds, failures, historyVars>>
    /\ UNCHANGED <<sessions, dbOps, dateNow, reader, proxyVars, panelVars>>

NextCapture == NextPlay \/ insertLog

SpecCapture == InitPlay /\ [][NextCapture]_vars

\* ---- one replay in which the speed is set during a pause -----------------
PauseOnce ==
    /\ Unprobed /\ status = "playing" /\ ProbeCall
    /\ Becomes(pause(Engine))
    /\ Observe("pause")
    /\ probe' = [NoProbe EXCEPT !.phase = "paused", !.from = status,
                                !.at = SimClock(Engine)]

SetSpeedPaused ==
    /\ probe.phase = "paused" /\ ProbeCall
    /\ \E m \in Speeds : Becomes(setSpeed(Engine, m))
    /\ Observe("setSpeed")
    /\ probe' = [probe EXCEPT !.phase = "rescaled"]

StartAfterSetSpeed ==
    /\ probe.phase = "rescaled" /\ ProbeCall
    /\ Becomes(start(Engine))
    /\ Observe("start")
    /\ probe' = [probe EXCEPT !.phase = "resumed"]

SpecPausedSpeed ==
    /\ InitPlay
    /\ [][\/ StartOnce
          \/ Frame
          \/ CountDone
          \/ BatchDone
          \/ AdvanceTime
          \/ PauseOnce
          \/ SetSpeedPaused
          \/ StartAfterSetSpeed]_vars

\* ---- start() called again while the first start() awaits the store -------
StartAgain ==
    /\ calls = 1 /\ status = "idle" /\ pending # <<>>
    /\ Start

SpecStartTwice ==
    /\ InitPlay
    /\ [][\/ StartOnce
          \/ StartAgain
          \/ Frame
          \/ CountDone
          \/ BatchDone
          \/ PlayTime]_vars

\* ---- a client reads one capture session page by page ---------------------
InitRead ==
    /\ Constructed
    /\ stored = <<>> /\ batchSize = 1 /\ refetchThreshold = 1
    /\ sessions = [s \in {} |-> Null] /\ dbOps = <<>> /\ dateNow = 0
    /\ Unwrapped /\ PanelClosed
    /\ system_logs \in Tables
    /\ \E s \in SessionIds, limit \in {1, 2} :
        reader = [session |-> s, limit |-> limit, offset |-> 0, rows |-> <<>>,
                  done |-> FALSE]

\* getLogsBySession(session, limit, offset) for the next page
ReadPage ==
    /\ ~reader.done
    /\ \E order \in ResultOrders(reader.session) :
        LET page == selectLogs(order, reader.limit, reader.offset)
        IN reader' = [reader EXCEPT !.rows = @ \o page,
                                   !.offset = @ + reader.limit,
                                   !.done = page = <<>>]
    /\ UNCHANGED <<engineVars, optionVars, now, calls, setSpeeds, failures,
                   historyVars, system_logs, sessions, dbOps, dateNow,
                   proxyVars, panelVars>>

SpecRead == InitRead /\ [][ReadPage]_vars

\* ---- callers of the store, one statement at a time -----------------------
SessionRow(started) ==
    [started_at |-> started, ended_at |-> Null, server_name |-> "server",
     log_count |-> 0]

StoreOp(op, s, count) == [op |-> op, session |-> s, count |-> count]

\* UPDATE sessions SET ended_at = $1, log_count = $2 WHERE id = $3
endedRows(rows, s, at, count) ==
    [t \in DOMAIN rows |->
        IF t = s THEN [rows[t] EXCEPT !.ended_at = at, !.log_count = count]
        ELSE rows[t]]

\* UPDATE sessions SET log_count = 0
clearedRows(rows) == [t \in DOMAIN rows |-> [rows[t] EXCEPT !.log_count = 0]]

\* DELETE FROM system_logs WHERE session_id = $1
logsWithout(s) == SelectSeq(system_logs, LAMBDA r : r.session_id # s)

\* the id of the next inserted row
nextId == IF system_logs = <<>> THEN 1 ELSE system_logs[Len(system_logs)].id + 1

InitStore ==
    /\ Constructed /\ Installed
    /\ stored = <<>> /\ batchSize = 1 /\ refetchThreshold = 1
    /\ system_logs = <<>>

StoreCall(op) ==
    /\ lastOp' = op
    /\ UNCHANGED <<engineVars, optionVars, now, calls, setSpeeds, failures,
                   prevStatus, halted, pauseClock, probe, reader, proxyVars,
                   panelVars>>

createSession ==
    /\ \E s \in SessionIds \ DOMAIN sessions :
        sessions' = (s :> SessionRow(dateNow)) @@ sessions
    /\ StoreCall("createSession")
    /\ UNCHANGED <<system_logs, dbOps, dateNow>>

captureLog ==
    /\ nextId <= MaxRows
    /\ \E s \in DOMAIN sessions, ts \in Stamps :
        system_logs' = Append(system_logs, LogRow(nextId, s, ts))
    /\ StoreCall("insertLog")
    /\ UNCHANGED <<sessions, dbOps, dateNow>>

\* endSession up to its await of getLogCount
endSessionCount ==
    /\ Len(dbOps) < MaxOps
    /\ \E s \in DOMAIN sessions :
        dbOps' = Append(dbOps, StoreOp("endSession", s, Len(SessionRows(s))))
    /\ StoreCall("getLogCount")
    /\ UNCHANGED <<system_logs, sessions, dateNow>>

\* endSession from the count it read to its end
endSessionUpdate ==
    /\ \E k \in DOMAIN dbOps :
        /\ dbOps[k].op = "endSession"
        /\ sessions' = endedRows(sessions, dbOps[k].session, dateNow,
                                  dbOps[k].count)
        /\ dbOps' = RemoveAt(dbOps, k)
    /\ StoreCall("endSession")
    /\ UNCHANGED <<system_logs, dateNow>>

\* deleteSession up to the end of its first statement
deleteSessionLogs ==
    /\ Len(dbOps) < MaxOps
    /\ \E s \in DOMAIN sessions :
        /\ system_logs' = logsWithout(s)
        /\ dbOps' = Append(dbOps, StoreOp("deleteSession", s, 0))
    /\ StoreCall("deleteLogs")
    /\ UNCHANGED <<sessions, dateNow>>

\* deleteSession's second statement
deleteSessionRow ==
    /\ \E k \in DOMAIN dbOps :
        /\ dbOps[k].op = "deleteSession"
        /\ sessions' = [t \in DOMAIN sessions \ {dbOps[k].session} |-> sessions[t]]
        /\ dbOps' = RemoveAt(dbOps, k)
    /\ StoreCall("deleteSession")
    /\ UNCHANGED <<system_logs, dateNow>>

\* clearAllLogs up to the end of its first statement
clearAllLogsRows ==
    /\ Len(dbOps) < MaxOps
    /\ system_logs' = <<>>
    /\ dbOps' = Append(dbOps, StoreOp("clearAllLogs", Replayed, 0))
    /\ StoreCall("clearLogs")
    /\ UNCHANGED <<sessions, dateNow>>

\* clearAllLogs' second statement
clearAllLogsCounts ==
    /\ \E k \in DOMAIN dbOps :
        /\ dbOps[k].op = "clearAllLogs"
        /\ dbOps' = RemoveAt(dbOps, k)
    /\ sessions' = clearedRows(sessions)
    /\ StoreCall("clearAllLogs")
    /\ UNCHANGED <<system_logs, dateNow>>

\* Date.now() advances
ClockTick ==
    /\ dateNow < MaxTime
    /\ dateNow' = dateNow + 1
    /\ StoreCall("clock")
    /\ UNCHANGED <<system_logs, sessions, dbOps>>

SpecStore ==
    /\ InitStore
    /\ [][\/ createSession
          \/ captureLog
          \/ endSessionCount
          \/ endSessionUpdate
          \/ deleteSessionLogs
          \/ deleteSessionRow
          \/ clearAllLogsRows
          \/ clearAllLogsCounts
          \/ ClockTick]_vars

\* ---- one subordinate and its three relay paths ---------------------------
Wrapped == "t1"

InitRelay ==
    /\ Constructed
    /\ stored = <<>> /\ batchSize = 1 /\ refetchThreshold = 1
    /\ system_logs = <<>> /\ dbOps = <<>> /\ dateNow = 0 /\ reader = NoReader
    /\ sessions = ("s1" :> SessionRow(0))
    /\ running = {Wrapped} /\ sessionOf = (Wrapped :> "s1") /\ notified = <<>>
    /\ lines = [st \in Streams |-> <<>>] /\ pipes = [st \in Streams |-> <<>>]
    /\ relayed = [toChild |-> <<>>, toCaller |-> <<>>]
    /\ captured = <<>>
    /\ PanelClosed

RelayFrame ==
    UNCHANGED <<engineVars, optionVars, now, calls, setSpeeds, failures,
                historyVars, dbVars, running, sessionOf, notified, panelVars>>

\* the caller or the subordinate writes the next line of a stream
Write(st) ==
    /\ Wrapped \in running
    /\ Len(lines[st]) < MaxLines
    /\ LET line == Line(st, Len(lines[st]) + 1)
       IN /\ lines' = [lines EXCEPT ![st] = Append(@, line)]
          /\ pipes' = [pipes EXCEPT ![st] = Append(@, line)]
    /\ UNCHANGED <<relayed, captured>>
    /\ RelayFrame

\* a relay path reads one line, passes it on and captures it
Relay(st) ==
    /\ Wrapped \in running
    /\ pipes[st] # <<>>
    /\ LET line == Head(pipes[st])
       IN /\ pipes' = [pipes EXCEPT ![st] = Tail(@)]
          /\ relayed' = IF forwards(st) = "nowhere" THEN relayed
                         ELSE [relayed EXCEPT ![forwards(st)] = Append(@, line)]
          /\ captured' = Append(captured, McpTrafficEvent(Wrapped, st, line))
    /\ UNCHANGED lines
    /\ RelayFrame

send == Write("stdin")
WriteStdout == Write("stdout")
WriteStderr == Write("stderr")
RelayStdin == Relay("stdin")
RelayStdout == Relay("stdout")
RelayStderr == Relay("stderr")

SpecRelay ==
    /\ InitRelay
    /\ [][\/ send
          \/ WriteStdout
          \/ WriteStderr
          \/ RelayStdin
          \/ RelayStdout
          \/ RelayStderr]_vars

\* ---- spawning and killing subordinates -----------------------------------
ProcessManager ==
    [running |-> running, sessionOf |-> sessionOf, notified |-> notified,
     sessions |-> sessions]

\* spawn(target): a live subordinate and a new session s for it
spawn(P, t, s) ==
    [P EXCEPT !.running = @ \cup {t},
              !.sessionOf = (t :> s) @@ @,
              !.sessions = (s :> SessionRow(dateNow)) @@ @]

\* the teardown of a target's subordinate: the session is marked ended with
\* the number of events captured, and a process-stopped notification is sent
teardown(P, t) ==
    [P EXCEPT !.running = @ \ {t},
              !.sessions = endedRows(@, P.sessionOf[t], dateNow,
                                     Len(SessionRows(P.sessionOf[t]))),
              !.notified = Append(@, t)]

kill_again(P, t) ==
    IF t \notin DOMAIN P.sessionOf THEN P ELSE teardown(P, t)

\* kill(target): killing an already-stopped target is a no-op
kill(P, t) ==
    IF t \notin P.running THEN P ELSE teardown(P, t)

Managed(P) ==
    /\ running' = P.running /\ sessionOf' = P.sessionOf
    /\ notified' = P.notified /\ sessions' = P.sessions

InitKill ==
    /\ Constructed
    /\ stored = <<>> /\ batchSize = 1 /\ refetchThreshold = 1
    /\ system_logs = <<>> /\ dbOps = <<>> /\ dateNow = 0 /\ reader = NoReader
    /\ sessions = [s \in {} |-> Null]
    /\ Unwrapped
    /\ selectedServer \in Targets \cup {NoServer}
    /\ inspectorActive = FALSE /\ inspectorMessages = <<>>
    /\ isProcessRunning = FALSE /\ messages = <<>>
    /\ listeners = <<>> /\ registering = <<>> /\ arrivals = [panel |-> 0, store |-> 0, adds |-> 0]

KillFrame ==
    UNCHANGED <<engineVars, optionVars, now, calls, setSpeeds, failures,
                historyVars, dbOps, dateNow, reader, lines, pipes, relayed,
                captured, selectedServer, inspectorMessages, messages,
                listeners, registering, arrivals>>

spawnServer ==
    /\ \E t \in Targets \ running, s \in SessionIds \ DOMAIN sessions :
        Managed(spawn(ProcessManager, t, s))
    /\ UNCHANGED <<system_logs, isProcessRunning, inspectorActive>>
    /\ KillFrame

killServer ==
    /\ \E t \in Targets : Managed(kill(ProcessManager, t))
    /\ UNCHANGED <<system_logs, isProcessRunning, inspectorActive>>
    /\ KillFrame

handleSpawn ==
    /\ selectedServer # NoServer
    /\ selectedServer \notin running
    /\ \E s \in SessionIds \ DOMAIN sessions :
        Managed(spawn(ProcessManager, selectedServer, s))
    /\ isProcessRunning' = TRUE /\ inspectorActive' = TRUE
    /\ UNCHANGED system_logs
    /\ KillFrame

handleKill ==
    /\ selectedServer # NoServer
    /\ Managed(kill(ProcessManager, selectedServer))
    /\ isProcessRunning' = FALSE /\ inspectorActive' = FALSE
    /\ UNCHANGED system_logs
    /\ KillFrame

\* a line relayed for a live subordinate is stored as an event of its session
capture ==
    /\ nextId <= MaxRows
    /\ \E t \in running, ts \in Stamps :
        system_logs' = Append(system_logs, LogRow(nextId, sessionOf[t], ts))
    /\ UNCHANGED <<running, sessionOf, notified, sessions, isProcessRunning,
                   inspectorActive>>
    /\ KillFrame

SpecKill ==
    /\ InitKill
    /\ [][\/ spawnServer
          \/ killServer
          \/ handleSpawn
          \/ handleKill
          \/ capture
          \/ ClockTick]_vars

\* ---- the inspector panel follows the selected server ---------------------
InitPanel ==
    /\ Constructed /\ Installed
    /\ stored = <<>> /\ batchSize = 1 /\ refetchThreshold = 1
    /\ system_logs = <<>>

PanelFrame ==
    UNCHANGED <<engineVars, optionVars, now, calls, setSpeeds, failures,
                historyVars, dbVars, proxyVars, inspectorActive,
                inspectorMessages>>

\* the store's selectServer and the panel's effects on [selectedServer]: the
\* cleanup of the previous effect calls unlisten if its listen() has
\* resolved, and the new effect calls listen() if a server is selected
selectServer ==
    /\ Len(listeners) + Len(registering) < MaxListens
    /\ \E name \in (Targets \cup {NoServer}) \ {selectedServer} :
        /\ selectedServer' = name
        /\ registering' =
              [i \in DOMAIN registering |->
                  [registering[i] EXCEPT !.cleaned = TRUE]]
              \o (IF name = NoServer THEN <<>>
                  ELSE << [server |-> name, cleaned |-> FALSE] >>)
        /\ isProcessRunning' =
              IF name = NoServer THEN isProcessRunning ELSE name \in running
    /\ listeners' = SelectSeq(listeners, LAMBDA l : ~l.owned)
    /\ UNCHANGED <<messages, arrivals>>
    /\ PanelFrame

\* a listen() promise resolves: the listener is registered, and unlisten is
\* assigned in an effect that may already have been cleaned up
listenResolved ==
    /\ \E k \in DOMAIN registering :
        /\ listeners' = Append(listeners,
                [server |-> registering[k].server,
                 owned |-> ~registering[k].cleaned])
        /\ registering' = RemoveAt(registering, k)
    /\ UNCHANGED <<selectedServer, isProcessRunning, messages, arrivals>>
    /\ PanelFrame

\* an mcp-traffic event of server t reaches every registered listener
traffic ==
    /\ listeners # <<>>
    /\ \E t \in Targets :
        \* the listeners whose closure holds server t as selectedServer
        LET k == Len(SelectSeq(listeners, LAMBDA l : l.server = t))
        IN /\ arrivals.adds + k <= MaxAdds
           /\ messages' = handled(messages, t, arrivals.panel, k)
           /\ arrivals' = [arrivals EXCEPT !.panel = @ + k, !.adds = @ + k]
    /\ UNCHANGED <<selectedServer, isProcessRunning, listeners, registering>>
    /\ PanelFrame

handleClear ==
    /\ selectedServer # NoServer
    /\ messages' = <<>>
    /\ arrivals' = [arrivals EXCEPT !.panel = 0]
    /\ UNCHANGED <<selectedServer, isProcessRunning, listeners, registering>>
    /\ PanelFrame

SpecPanel ==
    /\ InitPanel
    /\ [][\/ selectServer
          \/ listenResolved
          \/ traffic
          \/ handleClear]_vars

\* ---- the two live message buffers ----------------------------------------
Shown == "t1"

InitBuffers ==
    /\ Constructed
    /\ stored = <<>> /\ batchSize = 1 /\ refetchThreshold = 1
    /\ system_logs = <<>> /\ dbOps = <<>> /\ dateNow = 0 /\ reader = NoReader
    /\ sessions = [s \in {} |-> Null]
    /\ Unwrapped
    /\ selectedServer = Shown /\ inspectorActive = FALSE
    /\ isProcessRunning = FALSE
    /\ listeners = << [server |-> Shown, owned |-> TRUE] >> /\ registering = <<>>
    /\ \E p, q \in {0, PanelKeep - 1, PanelKeep, StoreKeep} :
        \* each buffer after its first p, q additions
        /\ messages = [i \in 1..p |-> Message(Shown, i)]
        /\ inspectorMessages = [i \in 1..q |-> Message(Shown, i)]
        /\ arrivals = [panel |-> p, store |-> q, adds |-> 0]

addInspectorMessage ==
    /\ arrivals.adds < MaxAdds
    /\ inspectorMessages' =
          slice(Append(inspectorMessages, Message(Shown, arrivals.store + 1)),
                StoreKeep)
    /\ arrivals' = [arrivals EXCEPT !.store = @ + 1, !.adds = @ + 1]
    /\ UNCHANGED <<engineVars, optionVars, now, calls, setSpeeds, failures,
           historyVars, dbVars, proxyVars, selectedServer,
           inspectorActive, isProcessRunning, messages, listeners,
           registering>>

clearInspectorMessages ==
    /\ inspectorMessages' = <<>>
    /\ arrivals' = [arrivals EXCEPT !.store = 0]
    /\ UNCHANGED <<engineVars, optionVars, now, calls, setSpeeds, failures,
           historyVars, dbVars, proxyVars, selectedServer,
           inspectorActive, isProcessRunning, messages, listeners,
           registering>>

SpecBuffers ==
    /\ InitBuffers
    /\ [][\/ traffic
          \/ handleClear
          \/ addInspectorMessage
          \/ clearInspectorMessages]_vars

TypeOK ==
    /\ status \in {"idle", "playing", "paused", "ended"}
    /\ speed \in Speeds
    /\ rafHandle \in {"null", "live", "stale"}
    /\ isFetching \in BOOLEAN
    /\ offset \in Nat /\ emittedCount \in Nat /\ totalLogs \in Nat

\* ---- claims -------------------------------------------------------------
Range(f) == {f[i] : i \in DOMAIN f}
StoredIds == [i \in 1..Len(stored) |-> i]
BatchReads == {i \in DOMAIN pending : pending[i].op = "batch"}
LoggedNow == SelectSeq(callbacks, LAMBDA c : c.cb = "onLog")
ReportedNow == SelectSeq(callbacks, LAMBDA c : c.cb = "onStatusChange")

\* C1: uninterrupted replay of a session of N >= 1 events calls onLog exactly
\* N times, once per stored event in stored order, and the last value passed
\* to onProgress is 1.0 (N/N).
C1_ReplayEmitsAll ==
    /\ \A i \in DOMAIN emitted : emitted[i] = i
    /\ Len(emitted) <= Len(stored)
    /\ (status = "ended" /\ Len(stored) >= 1) =>
          /\ emitted = StoredIds
          /\ lastProgress = <<Len(stored), Len(stored)>>

C1_Witness ==
    /\ status = "ended" /\ Len(stored) = 3 /\ batchSize = 1
    /\ emitted = <<1, 2, 3>> /\ lastProgress = <<3, 3>>

\* C2: a tick while playing emits, in queue order, exactly the buffered events
\* whose timestamp is <= simulationTimeStart + (now - startTime) * speed, with
\* one emittedCount increment and one progress report emittedCount/totalLogs
\* after each; no event is emitted while its timestamp exceeds that target.
DueNow == SelectSeq(queue, LAMBDA e : e.timestamp * Unit <= SimClock(Engine))
NotDueNow == SelectSeq(queue, LAMBDA e : e.timestamp * Unit > SimClock(Engine))

TickOutcome ==
    LET k == Len(DueNow)
    IN /\ emitted' = emitted \o [i \in 1..k |-> DueNow[i].id]
       /\ queue' = NotDueNow
       /\ emittedCount' = emittedCount + k
       /\ Len(callbacks') \in {2 * k, 2 * k + 1}
       /\ \A i \in 1..k :
            /\ callbacks'[2 * i - 1] = LogCall(DueNow[i].id)
            /\ callbacks'[2 * i] = ProgressCall(emittedCount + i, totalLogs)
       /\ Len(callbacks') = 2 * k + 1 => callbacks'[2 * k + 1] = StatusCall("ended")

\* C2 as a property of every frame that finds the engine playing
C2_TickEmitsDue ==
    [][(lastOp' = "frame" /\ status = "playing") => TickOutcome]_vars

\* the safety half of C2 on its own: nothing is emitted before it is due
C2_NeverEarly ==
    \A i \in DOMAIN LoggedNow :
        stored[LoggedNow[i].id] * Unit <= SimClock(Engine)

\* C3: every status change reported through onStatusChange follows one of the
\* edges idle->playing, playing->paused, paused->playing, playing->ended,
\* idle->ended, any->idle (stop) or ended->playing (start).
StatusEdges ==
    { <<"idle", "playing">>, <<"playing", "paused">>, <<"paused", "playing">>,
      <<"playing", "ended">>, <<"idle", "ended">>, <<"ended", "playing">> }

AllowedEdge(a, b) == a = b \/ b = "idle" \/ <<a, b>> \in StatusEdges

StatusChain == <<prevStatus>> \o [i \in DOMAIN ReportedNow |-> ReportedNow[i].st]

\* C3 over the statuses reported by one action, starting from the status before it
C3_StatusEdges ==
    \A i \in 1..(Len(StatusChain) - 1) :
        AllowedEdge(StatusChain[i], StatusChain[i + 1])

\* C4: a failed batch fetch of the scheduling loop clears the fetch-in-flight
\* flag and leaves status, queue, offset and emittedCount unchanged; the next
\* tick that finds the queue below refetchThreshold requests the batch at the
\* unchanged offset; a tick with an empty queue and offset < totalLogs emits
\* nothing and does not end playback.
TickReadFails ==
    /\ lastOp' = "readFail"
    /\ \E i \in DOMAIN pending :
        /\ pending[i].op = "batch" /\ pending[i].by = "tick"
        /\ pending' = RemoveAt(pending, i)

C4_FailureLeavesPlayback ==
    TickReadFails =>
        /\ isFetching' = FALSE /\ status' = status /\ queue' = queue
        /\ offset' = offset /\ emittedCount' = emittedCount
        /\ emitted' = emitted

C4_TickRetries ==
    (lastOp' = "frame" /\ status = "playing" /\ ~isFetching
        /\ Len(queue') < refetchThreshold) =>
        /\ isFetching'
        /\ \E j \in DOMAIN pending' :
            pending'[j].op = "batch" /\ pending'[j].off = offset

C4_DryQueueWaits ==
    (lastOp' = "frame" /\ status = "playing" /\ queue = <<>>
        /\ offset < totalLogs) =>
        /\ emitted' = emitted /\ emittedCount' = emittedCount
        /\ status' = "playing" /\ offset' = offset

\* C4: the three parts hold of every step
C4_FailedFetchRetried ==
    [][C4_FailureLeavesPlayback /\ C4_TickRetries /\ C4_DryQueueWaits]_vars

\* playback after a failed read-ahead: the retry at the same offset is in flight
C4_Witness ==
    /\ failures = 1 /\ calls = 1 /\ lastOp = "frame" /\ status = "playing"
    /\ queue = <<>> /\ offset < totalLogs /\ isFetching
    /\ \E j \in DOMAIN pending : pending[j].off = offset /\ pending[j].by = "tick"

\* C5: once stop() or pause() has returned, onLog is not invoked and status
\* does not become playing until a later start() or seek() call.
C5_HaltedStaysQuiet ==
    halted =>
        /\ LoggedNow = <<>>
        /\ \A i \in DOMAIN ReportedNow : ReportedNow[i].st # "playing"

\* C6: a batch fetch in flight when stop() or seek(p) was called contributes
\* nothing when it completes: no event is appended to the queue and (for a
\* read of the scheduling loop, which nothing awaits) offset does not advance.
StaleBatchDone ==
    /\ lastOp' = "batchDone"
    /\ \E i \in DOMAIN pending : pending[i].op = "batch" /\ pending[i].stale

StaleTickBatchDone ==
    /\ lastOp' = "batchDone"
    /\ \E i \in DOMAIN pending :
        pending[i].op = "batch" /\ pending[i].stale /\ pending[i].by = "tick"

\* C6 as a property of every completion of a stale batch read
C6_StaleBatchDiscarded ==
    [][/\ StaleBatchDone =>
            \A j \in DOMAIN queue' : \E k \in DOMAIN queue : queue'[j] = queue[k]
       /\ StaleTickBatchDone => (queue' = queue /\ offset' = offset)]_vars

\* C8: the engine enters ended from playing only at a tick where the queue
\* is empty and offset >= totalLogs, and a replay started on a non-empty
\* session eventually reaches ended when frames keep firing, the clock keeps
\* advancing and reads succeed, for every batchSize >= 1 and
\* refetchThreshold >= 0.
C8_EndsOnlyWhenDrained ==
    [][(status = "playing" /\ status' = "ended") =>
            (lastOp' = "frame" /\ queue' = <<>> /\ offset' >= totalLogs')]_vars

C8_EventuallyEnded ==
    (Len(stored) >= 1 /\ lastOp = "start") ~> (status = "ended")

\* C8: both halves
C8_Termination == C8_EndsOnlyWhenDrained /\ C8_EventuallyEnded

\* C9: resuming with start() after pause(), with no seek or setSpeed between,
\* leaves the simulated clock at its value of the pause instant.
C9_PauseExcluded ==
    pauseClock.state = "resumed" => SimClock(Engine) = pauseClock.clock

C9_Witness ==
    /\ pauseClock.state = "resumed" /\ status = "playing"
    /\ now - pausedAt >= Unit /\ pausedAt > 0
    /\ Len(queue) > 0 /\ Len(emitted) > 0

\* C10: setSpeed(m), m > 0, while playing leaves the simulated clock
\* simulationTimeStart + (now - startTime) * speed unchanged and emits nothing.
C10_SpeedKeepsClock ==
    [][(lastOp' = "setSpeed" /\ status = "playing") =>
            /\ SimClock(Engine)' = SimClock(Engine)
            /\ emitted' = emitted]_vars

C10_Witness ==
    /\ lastOp = "setSpeed" /\ prevStatus = "playing" /\ status = "playing"
    /\ speed = 2 /\ now - startTime > 0 /\ Len(queue) > 0

\* C7: at most one batch read of the engine is outstanding, the
\* fetch-in-flight flag is true exactly while one is, and a tick requests a
\* batch only when the queue is below refetchThreshold and none is in flight.
C7_FlagMatchesReads ==
    /\ Cardinality(BatchReads) <= 1
    /\ isFetching <=> BatchReads # {}

C7_TickRequestsWhenLow ==
    (lastOp' = "frame" /\ \E j \in DOMAIN pending' :
                            pending'[j].by = "tick" /\ ~pending'[j] \in Range(pending)) =>
        (~isFetching /\ Len(queue') < refetchThreshold)

\* C7: the invariant and the condition of the tick's request together
C7_OneOutstandingRead ==
    [](C7_FlagMatchesReads) /\ [][C7_TickRequestsWhenLow]_vars

C7_Witness ==
    /\ isFetching /\ Cardinality(BatchReads) = 1
    /\ status = "playing" /\ lastOp = "frame"
    /\ prevStatus = "playing" /\ Len(queue) < refetchThreshold
    /\ pending[1].off = offset /\ Len(pending) = 1 /\ frames = 0
    /\ Len(emitted) > 0 /\ callbacks = <<>>

\* C11: when seek(p), p in [0,1], completes with no other fetch in flight,
\* emittedCount = floor(totalLogs * p), the queue holds exactly the store's
\* batch at that offset, offset = floor(totalLogs * p) + the batch's length,
\* progress is reported once, and status is playing iff it was playing when
\* seek was called (otherwise unchanged).
Progressed(cbs) == SelectSeq(cbs, LAMBDA c : c.cb = "onProgress")

SeekDone ==
    /\ lastOp' = "batchDone"
    /\ Len(pending) = 1 /\ pending[1].op = "batch" /\ pending[1].by = "seek"

SeekTarget == (totalLogs * pending[1].pos[1]) \div pending[1].pos[2]
SeekBatch == getLogsBySession(batchSize, SeekTarget)

C11_SeekPostcondition ==
    [][SeekDone =>
        /\ emittedCount' = SeekTarget
        /\ queue' = SeekBatch
        /\ offset' = SeekTarget + Len(SeekBatch)
        /\ Len(Progressed(callbacks')) = 1
        /\ status' = IF pending[1].wasPlaying THEN "playing" ELSE status]_vars

\* C11 with the resumed playback's first tick accounted for: that tick, run
\* by seek itself when it was playing, may emit the first k events of the
\* batch and ends playback when nothing is left
SeekOutcome(k) ==
    /\ ~pending[1].wasPlaying => k = 0
    /\ emittedCount' = SeekTarget + k
    /\ emitted' = emitted \o [i \in 1..k |-> SeekBatch[i].id]
    /\ queue' = SubSeq(SeekBatch, k + 1, Len(SeekBatch))
    /\ offset' = SeekTarget + Len(SeekBatch)
    /\ Progressed(callbacks') =
            <<ProgressCall(pending[1].pos[1], pending[1].pos[2])>>
            \o [i \in 1..k |-> ProgressCall(SeekTarget + i, totalLogs)]
    /\ pending[1].wasPlaying => StatusCall("playing") \in Range(callbacks')
    /\ status' = IF ~pending[1].wasPlaying THEN status
                 ELSE IF queue' = <<>> /\ offset' >= totalLogs THEN "ended"
                 ELSE "playing"

C11_SeekThenResume ==
    [][SeekDone => \E k \in 0..Len(SeekBatch) : SeekOutcome(k)]_vars

\* seek(1/2) on three events while playing has completed and playback goes on
C11_Witness ==
    /\ lastOp = "batchDone" /\ Len(callbacks) >= 1
    /\ callbacks[1] = ProgressCall(1, 2)
    /\ status = "playing" /\ totalLogs = 3 /\ emittedCount >= 1
    /\ offset = 1 + Len(getLogsBySession(batchSize, 1))
\* C12: after seek(p) completes with a non-empty batch, at the moment playback
\* next runs (by seek itself if it was playing, by a later start() if it was
\* paused) the simulated clock equals the timestamp of the first event at the
\* seeked offset and that event is emitted by the first tick, however long
\* the engine was paused before the seek and however long the read took.
FirstEmitted(id) ==
    /\ Len(emitted') > Len(emitted)
    /\ emitted'[Len(emitted) + 1] = id

SeekResumesItself ==
    SeekDone /\ pending[1].wasPlaying /\ SeekBatch # <<>>

SoughtWhilePaused ==
    /\ lastOp = "batchDone" /\ Len(callbacks) = 1
    /\ callbacks[1].cb = "onProgress"
    /\ status = "paused" /\ queue # <<>>

C12_SeekAnchorsClock ==
    [][/\ SeekResumesItself =>
            /\ SimClock(Engine)' = SeekBatch[1].timestamp * Unit
            /\ FirstEmitted(SeekBatch[1].id)
       /\ (SoughtWhilePaused /\ lastOp' = "start") =>
            /\ SimClock(Engine)' = queue[1].timestamp * Unit
            /\ FirstEmitted(queue[1].id)]_vars

\* C13: from any status, on an unmodified session of N events, seek(0.0)
\* followed by start() and ticks to completion invokes onLog with the sequence
\* of a fresh start(): all N events, each once, in stored order, beginning
\* with the first.
EmittedSinceProbe == SubSeq(emitted, probe.at + 1, Len(emitted))

IsSuffix(a, b) ==
    Len(a) <= Len(b) /\ a = SubSeq(b, Len(b) - Len(a) + 1, Len(b))

SecondSeekDone == probe.phase \in {"twice", "overlapped"} /\ SeekDone

PlayedToEnd ==
    /\ status = "ended" /\ Len(stored) >= 1
    /\ queue = <<>> /\ emittedCount = totalLogs /\ totalLogs = Len(stored)

C15_EndedUntilRestart ==
    [][/\ (PlayedToEnd /\ lastOp' = "start") =>
            /\ offset' = 0 /\ emittedCount' = 0
            /\ status' # "ended"
       /\ (PlayedToEnd /\ lastOp' \in {"frame", "time", "batchDone", "countDone"}) =>
            /\ status' = "ended" /\ emitted' = emitted]_vars

\* C16: immediately after stop() returns, from any status, status is idle,
\* the queue is empty, offset = 0, emittedCount = 0 and no tick is scheduled;
\* speed is left unchanged.
NoTickScheduled == rafHandle # "live" /\ frames = 0

C16_StopResets ==
    [][lastOp' = "stop" =>
        /\ status' = "idle" /\ queue' = <<>>
        /\ offset' = 0 /\ emittedCount' = 0
        /\ NoTickScheduled'
        /\ speed' = speed]_vars

\* C17: pause() in any status other than playing changes no engine state and
\* fires no callback; while playing it sets status to paused, records the
\* pause instant, cancels the pending tick and leaves queue, offset,
\* emittedCount, totalLogs, speed, simulationTimeStart and startTime unchanged.
PauseIgnored ==
    /\ UNCHANGED <<status, speed, queue, offset, totalLogs, emittedCount,
                   startTime, simulationTimeStart, pausedAt, rafHandle,
                   isFetching, frames, pending, emitted, lastProgress>>
    /\ callbacks' = <<>>

PauseTakesEffect ==
    /\ status' = "paused" /\ pausedAt' = now /\ rafHandle' = "null"
    /\ callbacks' = <<StatusCall("paused")>>
    /\ UNCHANGED <<queue, offset, emittedCount, totalLogs, speed,
                   simulationTimeStart, startTime>>

C17_PauseFrame ==
    [][lastOp' = "pause" =>
            IF status = "playing" THEN PauseTakesEffect ELSE PauseIgnored]_vars

\* pause() has just taken effect on a playing engine with buffered events
C17_Witness ==
    /\ lastOp = "pause" /\ prevStatus = "playing" /\ status = "paused"
    /\ pausedAt = now /\ now > 0 /\ rafHandle = "null"
    /\ queue # <<>> /\ Len(emitted) > 0

\* C18: start() from idle on a session whose event count is 0 sets status
\* directly to ended: playing is never reported, onLog is never invoked, no
\* batch is fetched and no tick is scheduled.
StartFromIdle == lastOp' = "start" /\ status = "idle"

EmptyCountDone == lastOp' = "countDone" /\ getLogCount = 0

C18_EmptySessionEnds ==
    [][/\ StartFromIdle =>
            /\ callbacks' = <<>> /\ status' = "idle"
            /\ pending' = Append(pending, Read("count", "start", 0, <<0, 1>>, FALSE))
            /\ UNCHANGED <<rafHandle, frames, isFetching, emitted>>
       /\ EmptyCountDone =>
            /\ status' = "ended" /\ totalLogs' = 0
            /\ callbacks' = <<StatusCall("ended")>>
            /\ \A j \in DOMAIN pending' : \E i \in DOMAIN pending : pending'[j] = pending[i]
            /\ Len(pending') = Len(pending) - 1
            /\ UNCHANGED <<rafHandle, frames, isFetching, emitted>>]_vars

\* the count of an empty session has come back to a start() made from idle
C18_Witness ==
    /\ lastOp = "countDone" /\ prevStatus = "idle" /\ status = "ended"
    /\ stored = <<>> /\ callbacks = <<StatusCall("ended")>>
    /\ pending = <<>> /\ emitted = <<>> /\ NoTickScheduled /\ ~isFetching

\* C19: setSpeed(m) with m <= 0 and seek(p) with p < 0 or p > 1 leave every
\* engine field unchanged, fire no callback and issue no store read, in
\* every status.
C19_InvalidIgnored ==
    [][lastOp' \in {"badSetSpeed", "badSeek"} =>
        /\ UNCHANGED <<status, speed, queue, offset, totalLogs, emittedCount,
                       startTime, simulationTimeStart, pausedAt, rafHandle,
                       isFetching, frames, pending, emitted, lastProgress>>
        /\ callbacks' = <<>>]_vars

\* seek with a position out of range has returned on a playing engine
C19_Witness ==
    /\ lastOp = "badSeek" /\ prevStatus = "playing" /\ status = "playing"
    /\ queue # <<>> /\ rafHandle = "live" /\ isFetching /\ speed = 2

\* C20: every value the engine passes to onProgress lies in [0,1], also when
\* the store gains events of the replayed session after start() has read
\* the total count.
InUnitInterval(c) == c.den > 0 /\ 0 <= c.num /\ c.num <= c.den

C20_ProgressInRange ==
    \A i \in DOMAIN callbacks :
        callbacks[i].cb = "onProgress" => InUnitInterval(callbacks[i])

\* C21: getLogsBySession(session, limit, offset) returns only events of that
\* session, in non-decreasing timestamp order with equal timestamps in
\* ascending id order, so that consecutive pages of an unmodified session
\* yield every stored event exactly once in that total order.
ByTimestampThenId(rows) ==
    \A i, j \in DOMAIN rows :
        i < j => \/ rows[i].timestamp < rows[j].timestamp
                 \/ rows[i].timestamp = rows[j].timestamp /\ rows[i].id < rows[j].id

C21_PagesInTotalOrder ==
    /\ \A i \in DOMAIN reader.rows : reader.rows[i].session_id = reader.session
    /\ ByTimestampThenId(reader.rows)
    /\ reader.done => Len(reader.rows) = Len(SessionRows(reader.session))

\* C22: when endSession(s) completes, the session's log_count equals the
\* number of events stored for s and ended_at is non-null, also when insertLog
\* calls for s interleave with the endSession call.
StoredFor(logs, s) == SelectSeq(logs, LAMBDA r : r.session_id = s)

EndSessionCompletes(k) ==
    /\ lastOp' = "endSession"
    /\ k \in DOMAIN dbOps /\ dbOps[k].op = "endSession"
    /\ dbOps' = RemoveAt(dbOps, k)
    /\ dbOps[k].session \in DOMAIN sessions'

C22_EndSessionCounts ==
    [][\A k \in 1..MaxOps :
        EndSessionCompletes(k) =>
            LET s == dbOps[k].session
            IN /\ sessions'[s].log_count = Len(StoredFor(system_logs', s))
               /\ sessions'[s].ended_at # Null]_vars

\* C23: once endSession has set ended_at for a session, no store operation
\* other than deleteSession changes the session's record: a repeated
\* endSession, clearAllLogs and later insertLog calls leave it unchanged.
Ended(s) == s \in DOMAIN sessions /\ sessions[s].ended_at # Null

C23_EndedImmutable ==
    [][\A s \in SessionIds :
        (Ended(s) /\ s \in DOMAIN sessions') => sessions'[s] = sessions[s]]_vars

\* C24: every line read from the subordinate's stdout is forwarded to the
\* caller unmodified, exactly once and in the order read; no stderr line is
\* forwarded; each relayed line is captured as one event (OUTGOING, INCOMING
\* or STDERR), and the captured events keep each stream's line order under
\* every interleaving of the three relay paths.
ReadSoFar(st) == SubSeq(lines[st], 1, Len(lines[st]) - Len(pipes[st]))

CapturedOf(st) ==
    LET evs == SelectSeq(captured, LAMBDA e : e.direction = direction(st))
    IN [i \in DOMAIN evs |-> evs[i].content]

C24_RelayInOrder ==
    /\ relayed.toCaller = ReadSoFar("stdout")
    /\ \A i \in DOMAIN relayed.toCaller : relayed.toCaller[i].stream # "stderr"
    /\ \A st \in Streams : CapturedOf(st) = ReadSoFar(st)
    /\ Len(captured) =
          Len(ReadSoFar("stdin")) + Len(ReadSoFar("stdout")) + Len(ReadSoFar("stderr"))

C24_Witness ==
    /\ \A st \in Streams : Len(lines[st]) = MaxLines /\ pipes[st] = <<>>
    /\ Len(relayed.toCaller) = MaxLines
    /\ captured[1].direction = "INCOMING" /\ captured[2].direction = "STDERR"
    /\ captured[3].direction = "INCOMING"

\* C25: kill(target) is idempotent: on a target with no live subordinate it
\* changes neither list_running nor any session record; on a live target it
\* removes the target from list_running and ends its session exactly once;
\* kill; kill leaves the same state as a single kill.
C25_KillIdempotent ==
    \A t \in Targets :
        LET K == kill(ProcessManager, t)
        IN /\ kill(K, t) = K
           /\ t \notin running => K = ProcessManager
           /\ t \in running =>
                 /\ K.running = running \ {t}
                 /\ K.sessions[sessionOf[t]].ended_at # Null
                 /\ K.notified = Append(notified, t)
                 /\ \A s \in DOMAIN sessions \ {sessionOf[t]} :
                       K.sessions[s] = sessions[s]

\* a target was killed, time went on, and another target is still live
C25_Witness ==
    /\ notified = <<"t1">> /\ running = {"t2"}
    /\ sessions[sessionOf["t1"]].ended_at # Null
    /\ sessions[sessionOf["t1"]].ended_at < dateNow
    /\ sessions[sessionOf["t1"]].log_count = 1

\* C26: setSpeed(m), m > 0, called while the engine is paused does not move
\* the simulated position: on the following start() the simulated clock
\* simulationTimeStart + (now - startTime) * speed equals its value at the
\* moment pause() was called.
C26_PausedSetSpeedKeepsClock ==
    (probe.phase = "resumed" /\ lastOp = "start")
        => SimClock(Engine) = probe.at

\* C27: overlapping start() calls from idle behave as a single start: status
\* is reported as playing once, ended is not reported before the session's
\* events have been emitted, and each stored event is emitted exactly once in
\* stored order.
C27_OverlappingStartsAsOne ==
    [][/\ status = "playing" => StatusCall("playing") \notin Range(callbacks')
       /\ \A i \in DOMAIN emitted' : emitted'[i] = i
       /\ (StatusCall("ended") \in Range(callbacks') /\ Len(stored) >= 1)
             => emitted' = StoredIds]_vars

\* C28: in every reachable state of the engine in which no fetch is in flight,
\* emittedCount + queue length = offset and the queue holds exactly the stored
\* events at positions emittedCount .. offset-1 in stored order; and
\* emittedCount <= totalLogs whenever status is playing or paused.
NoFetchInFlight == BatchReads = {} /\ ~isFetching

C28_CursorInvariant ==
    /\ NoFetchInFlight =>
          /\ emittedCount + Len(queue) = offset
          /\ [i \in DOMAIN queue |-> queue[i].id]
                = [i \in 1..Len(queue) |-> emittedCount + i]
    /\ status \in {"playing", "paused"} => emittedCount <= totalLogs

Window(buf, total) ==
    LET k == Min(total, StoreKeep)
    IN /\ Len(buf) = k
       /\ \A i \in 1..k : buf[i].n = total - k + i

C30_SlidingWindows ==
    /\ Window(messages, arrivals.panel)
    /\ Window(inspectorMessages, arrivals.store)
    /\ Len(messages) <= StoreKeep /\ Len(inspectorMessages) <= StoreKeep

C30_Witness ==
    /\ Len(messages) = StoreKeep /\ messages[1].n = 2
    /\ Len(inspectorMessages) = StoreKeep /\ inspectorMessages[1].n = 3
====
